---- MODULE Spec2Model ----
(***************************************************************************)
(* Quality_App ETL pipeline: incremental extraction (watermark lookup and  *)
(* source query), transformation, clean-table load and run-metadata        *)
(* bookkeeping, as sequenced by ETLOrchestrator.run() and main().          *)
(*                                                                         *)
(* Time is a discrete wall clock `now` (one tick = one calendar day, the   *)
(* grain of CURRENT_DATE); datetime.now() reads it.  Text that the code    *)
(* edits character by character (defect descriptions) is a sequence of     *)
(* one-character strings; the atom "a^" stands for the single character    *)
(* a-circumflex.  A nullable value is << >> (None) or <<v>>.               *)
(***************************************************************************)
EXTENDS Integers, Sequences, FiniteSets, TLC

\* ------------------------------------------------------------------ bounds
MaxTime == 1
MaxRuns == 2
MaxBatch == 2

\* ------------------------------------------------------- program constants
BootstrapDays == 356
MinPartLen == 15

JobName == "quality_data_extraction"
NULL == "NULL"
None == << >>
Some(v) == <<v>>

\* the sequences of at most MaxBatch elements of S
Batches(S) == UNION {[1..n -> S] : n \in 0..MaxBatch}

Procs == {1, 2}
Scheduled == {1}

\* ------------------------------------------------------------ text helpers
\* str.lower() on the characters that occur in the modelled descriptions
LowerChar(c) ==
    CASE c = "P" -> "p"
      [] c = "S" -> "s"
      [] c = "M" -> "m"
      [] c = "C" -> "c"
      [] OTHER -> c

StrLower(s) == [i \in 1..Len(s) |-> LowerChar(s[i])]

RECURSIVE LStrip(_)
LStrip(s) == IF s # << >> /\ Head(s) = " " THEN LStrip(Tail(s)) ELSE s

RECURSIVE RStrip(_)
RStrip(s) ==
    IF s # << >> /\ s[Len(s)] = " " THEN RStrip(SubSeq(s, 1, Len(s) - 1)) ELSE s

StrStrip(s) == RStrip(LStrip(s))

StartsWith(s, old) == Len(old) <= Len(s) /\ SubSeq(s, 1, Len(old)) = old

\* str.replace(old, new): every non-overlapping occurrence, left to right
RECURSIVE StrReplace(_, _, _)
StrReplace(s, old, new) ==
    IF s = << >> THEN << >>
    ELSE IF StartsWith(s, old)
         THEN new \o StrReplace(SubSeq(s, Len(old) + 1, Len(s)), old, new)
         ELSE <<Head(s)>> \o StrReplace(Tail(s), old, new)

ManquePortCableWire ==
    <<"m","a","n","q","u","e"," ","p","o","r","t"," ","c","a","b","l","e"," ","w","i","r","e">>
ManqueCableWire ==
    <<"m","a","n","q","u","e"," ","c","a","b","l","e"," ","w","i","r","e">>
ManqueCable == <<"m","a","n","q","u","e"," ","c","a","b","l","e">>
ManqueCableCanon == <<"m","a","n","q","u","e"," ","c","a^","b","l","e">>
PointSaute == <<"p","o","i","n","t"," ","s","a","u","t","e">>
PointSauteCanon == <<"p","o","i","n","t"," ","s","a","u","t","e'">>
PointCassee == <<"p","o","i","n","t"," ","c","a","s","s","e","e">>
PointCasseCanon == <<"p","o","i","n","t"," ","c","a","s","s","e'">>

\* the built-in mapping, in declaration order
FallbackCodeMapping ==
    << <<ManquePortCableWire, ManqueCableCanon>>,
       <<ManqueCableWire, ManqueCableCanon>>,
       <<ManqueCable, ManqueCableCanon>>,
       <<PointSaute, PointSauteCanon>>,
       <<PointCassee, PointCasseCanon>> >>

\* the mapping as read back from the file create_default_config writes:
\* yaml.dump sorts the keys of a mapping
DumpedCodeMapping ==
    << <<ManqueCable, ManqueCableCanon>>,
       <<ManqueCableWire, ManqueCableCanon>>,
       <<ManquePortCableWire, ManqueCableCanon>>,
       <<PointCassee, PointCasseCanon>>,
       <<PointSaute, PointSauteCanon>> >>

DefaultTargetColumns ==
    {"part_number", "serial_number", "date", "shift", "disposition", "code",
     "code_description", "category", "type", "machine_no", "who_made_it",
     "defect_comment", "repair_comment"}

\* columns of quality.clean_quality_data as init_database creates it
InitCleanColumns ==
    {"id", "stg_id", "part_number", "serial_number", "date", "shift",
     "disposition", "code", "code_description", "category", "type",
     "machine_no", "operator_no", "defect_comment", "repair_comment",
     "data_quality_score", "load_date", "load_timestamp",
     "record_fingerprint", "is_active"}

\* the clean table the dashboards query: it also has who_made_it
DashboardCleanColumns == InitCleanColumns \cup {"who_made_it"}

\* ------------------------------------------------------------- source rows
PartA == "AAAAAAAAAAAAAAAAAAAA"
PartB == "BBBBBBBBBBBBBBBBBBBB"
DescPointSaute == <<"P","o","i","n","t"," ","S","a","u","t","e">>
DescOk == <<"o","k">>

\* rows of lpb_quality_data that may become visible; Row2 agrees with Row1
\* on the four hashed fields and differs in machine_no only
Row1 == [part_number |-> PartA, serial_number |-> "S1", date |-> 0,
         code_description |-> DescPointSaute, machine_no |-> "M1"]
Row2 == [part_number |-> PartA, serial_number |-> "S1", date |-> 0,
         code_description |-> DescPointSaute, machine_no |-> "M2"]
Row3 == [part_number |-> "SHORT123", serial_number |-> "S3", date |-> 1,
         code_description |-> DescOk, machine_no |-> "M1"]
Row4 == [part_number |-> PartB, serial_number |-> NULL, date |-> 1,
         code_description |-> PointCassee, machine_no |-> "M1"]
SourceRows == {Row1, Row3, Row4}

VARIABLES
    now,            \* wall clock
    source,         \* visible rows of the source table lpb_quality_data
    configFile,     \* state of config/etl_config.yaml
    cleanColumns,   \* columns of quality.clean_quality_data
    other_runs,     \* the tables public.etl_runs and quality.etl_runs
    clean,          \* quality.clean_quality_data, in insertion (id) order
    etl_runs,       \* etl_metadata.etl_runs, in insertion (id) order
    staging,        \* quality.stg_quality_data
    pc,             \* position of each invocation of main()
    batch_id,       \* DatabaseExtractor.batch_id
    code_mapping,   \* QualityTransformer.code_mapping
    last_extraction,\* local of _extract_incremental
    raw_data,       \* local of run()
    clean_data,     \* local of run()
    records_loaded, \* local of load() / run()
    error,          \* the exception in flight
    result,         \* what main() handed to its caller
    runs,           \* number of invocations of main() so far
    hist,           \* history: what each process's current invocation did
    prev            \* history: what the invocation before it did

envVars == <<now, source, configFile, cleanColumns, other_runs>>
dbVars == <<clean, etl_runs, staging>>
procVars == <<pc, batch_id, code_mapping, last_extraction, raw_data,
              clean_data, records_loaded, error, result>>
histVars == <<runs, hist, prev>>
vars == <<envVars, dbVars, procVars, histVars>>

\* -------------------------------------------------------------- extractor
\* f"{v}" of a field value: None prints as "None"
PyStr(v) == IF v = NULL THEN "None" ELSE v

\* row.get(col, default)
Get(row, col, default) == IF col \in DOMAIN row THEN row[col] ELSE default

\* mutant: the machine number is digested too
create_record_hash_WithMachine(row) ==
    [part |-> PyStr(Get(row, "part_number", "")),
     serial |-> PyStr(Get(row, "serial_number", "")),
     date |-> IF "date" \in DOMAIN row THEN ToString(row.date) ELSE "",
     desc |-> Get(row, "code_description", << >>),
     machine |-> Get(row, "machine_no", "")]

\* the string create_record_hash digests, kept as its four parts; md5 is
\* taken to be injective
create_record_hash(row) ==
    [part |-> PyStr(Get(row, "part_number", "")),
     serial |-> PyStr(Get(row, "serial_number", "")),
     date |-> IF "date" \in DOMAIN row THEN ToString(row.date) ELSE "",
     desc |-> Get(row, "code_description", << >>)]

\* parse_source_date on a timestamp the driver delivered
parse_source_date(d) == Some(d)

\* columns SELECT * delivers from lpb_quality_data
SourceColumns ==
    {"part_number", "serial_number", "date", "shift", "disposition", "code",
     "code_description", "category", "type", "who_made_it", "registered_by",
     "repaired_by", "qua_auth", "prod_auth", "scrap_auth", "machine_no",
     "operator_no", "defect_comment", "repair_comment"}

\* mutant: the candidates are tried in the opposite order
QueryCandidates_QualityFirst == <<"quality", "public", "etl_metadata">>

\* candidate locations of etl_runs, in the order they are tried
QueryCandidates == <<"etl_metadata", "public", "quality">>

\* init_database creates etl_metadata.etl_runs only
NoOtherRuns == [schema \in {"public", "quality"} |-> None]

\* the rows of a candidate table, None when the table does not exist
TableRows(schema) ==
    IF schema = "etl_metadata" THEN Some(etl_runs) ELSE other_runs[schema]

\* mutant: the status test is missing from the WHERE clause
WatermarkFilter_AnyStatus(row) == row.job_name = JobName

\* WHERE job_name = 'quality_data_extraction' AND status = 'COMPLETED'
WatermarkFilter(row) == row.job_name = JobName /\ row.status = "COMPLETED"

\* mutant: ORDER BY completed_at ASC
LatestCompleted_Oldest(rows) ==
    {i \in DOMAIN rows :
        /\ WatermarkFilter(rows[i])
        /\ \A j \in DOMAIN rows :
              WatermarkFilter(rows[j]) => rows[i].completed_at <= rows[j].completed_at}

\* ORDER BY completed_at DESC LIMIT 1: the rows the query may return
LatestCompleted(rows) ==
    {i \in DOMAIN rows :
        /\ WatermarkFilter(rows[i])
        /\ \A j \in DOMAIN rows :
              WatermarkFilter(rows[j]) => rows[j].completed_at <= rows[i].completed_at}

\* the values one candidate query may yield; {} when it raises or has no row
CandidateValues(schema) ==
    IF TableRows(schema) = None THEN {}
    ELSE {TableRows(schema)[1][i].last_successful_extraction :
             i \in LatestCompleted(TableRows(schema)[1])}

\* the values get_last_extraction_time may return, trying candidate k onwards
RECURSIVE LookupFrom(_)
LookupFrom(k) ==
    IF k > Len(QueryCandidates) THEN {None}
    ELSE IF CandidateValues(QueryCandidates[k]) # {}
         THEN {Some(v) : v \in CandidateValues(QueryCandidates[k])}
         ELSE LookupFrom(k + 1)

\* the values get_last_extraction_time may return; when the target is
\* unreachable (up = FALSE) every query raises and the errors are swallowed
get_last_extraction_time(up) == IF up THEN LookupFrom(1) ELSE {None}

\* mutant: the watermark comparison is >= instead of >
InWindow_Inclusive(row, last) ==
    IF last # None THEN row.date >= last[1]
    ELSE row.date >= now - BootstrapDays

\* the WHERE clause of the incremental query
InWindow(row, last) ==
    IF last # None THEN row.date > last[1]
    ELSE row.date >= now - BootstrapDays

\* ORDER BY date (rows of equal date in a fixed order)
RECURSIVE OrderByDate(_)
OrderByDate(S) ==
    IF S = {} THEN << >>
    ELSE LET r == CHOOSE x \in S : \A y \in S : x.date <= y.date
         IN <<r>> \o OrderByDate(S \ {r})

\* one extracted row: the source fields the model follows plus the batch
\* identifier and the fingerprint (extracted_at is a column only); a column
\* the source table lacks has no value in the row
Extracted(row, bid) ==
    [part_number |-> row.part_number,
     serial_number |-> Get(row, "serial_number", NULL),
     date |-> parse_source_date(row.date),
     code_description |-> row.code_description, machine_no |-> row.machine_no,
     source_record_hash |-> create_record_hash(row),
     batch_id |-> bid]

ExtractRows(last, p) ==
    LET sel == OrderByDate({r \in source : InWindow(r, last)})
    IN [i \in 1..Len(sel) |-> Extracted(sel[i], batch_id[p])]

EmptyFrame == [columns |-> {}, rows |-> << >>]

\* ------------------------------------------------------------ transformer
\* steps 2-3: add the missing target columns, keep the target columns only
TransformColumns == DefaultTargetColumns \cup {"load_date", "load_timestamp"}

\* mutant: the comparison is > instead of >=
ValidPart_Strict(r) == Len(PyStr(r.part_number)) > MinPartLen

\* step 4: part numbers shorter than 15 characters are dropped
ValidPart(r) == Len(PyStr(r.part_number)) >= MinPartLen

\* step 7: rows whose date did not parse are dropped
ValidDate(r) == r.date # None

\* mutant: the rules are applied last to first
RECURSIVE ApplyMapping_Reversed(_, _)
ApplyMapping_Reversed(s, rules) ==
    IF rules = << >> THEN s
    ELSE ApplyMapping_Reversed(
            StrReplace(s, rules[Len(rules)][1], rules[Len(rules)][2]),
            SubSeq(rules, 1, Len(rules) - 1))

\* step 5: lower, strip, then every rule of the mapping in its order
RECURSIVE ApplyMapping(_, _)
ApplyMapping(s, rules) ==
    IF rules = << >> THEN s
    ELSE ApplyMapping(StrReplace(s, rules[1][1], rules[1][2]), Tail(rules))

Normalize(desc, rules) == ApplyMapping(StrStrip(StrLower(desc)), rules)

\* one transformed row (load_date and load_timestamp are columns only);
\* origin is history only (the fingerprint the
\* Extractor computed for the row it comes from), it is no column
TransformRow(r, rules) ==
    [part_number |-> r.part_number, serial_number |-> r.serial_number,
     date |-> r.date[1],
     code_description |-> Normalize(r.code_description, rules),
     machine_no |-> r.machine_no, origin |-> r.source_record_hash]

TransformRows(rows, rules) ==
    LET kept == SelectSeq(rows, LAMBDA r : ValidPart(r) /\ ValidDate(r))
    IN [i \in 1..Len(kept) |-> TransformRow(kept[i], rules)]

\* ------------------------------------------------------------------ loader
\* the value a clean-table row gets in record_fingerprint: the batch's
\* column of that name when it has one, otherwise the column default NULL
FingerprintOf(r, columns) ==
    IF "record_fingerprint" \in columns THEN r.record_fingerprint ELSE NULL

CleanRow(r, columns) ==
    [part_number |-> r.part_number, serial_number |-> r.serial_number,
     date |-> r.date, code_description |-> r.code_description,
     machine_no |-> r.machine_no,
     record_fingerprint |-> FingerprintOf(r, columns), origin |-> r.origin]

CleanRows(frame) ==
    [i \in 1..Len(frame.rows) |-> CleanRow(frame.rows[i], frame.columns)]

\* record_fingerprint VARCHAR(64) UNIQUE: NULLs never collide
UniqueOk(table) ==
    \A i, j \in DOMAIN table :
        (i # j /\ table[i].record_fingerprint # NULL)
            => table[i].record_fingerprint # table[j].record_fingerprint

\* why df.to_sql(..., if_exists='append') raises, "" when it does not
ToSqlError(frame, up) ==
    IF ~up THEN "could not connect to server"
    ELSE IF ~(frame.columns \subseteq cleanColumns)
         THEN "column of relation clean_quality_data does not exist"
    ELSE IF ~UniqueOk(clean \o CleanRows(frame))
         THEN "duplicate key value violates unique constraint"
    ELSE ""

\* mutant: the status argument is ignored, every row says COMPLETED
MetadataRow_AlwaysCompleted(records_processed, status, error_message) ==
    [job_name |-> JobName, last_successful_extraction |-> now,
     records_processed |-> records_processed, status |-> "COMPLETED",
     error_message |-> error_message, completed_at |-> now]

\* the row update_etl_metadata inserts
MetadataRow(records_processed, status, error_message) ==
    [job_name |-> JobName, last_successful_extraction |-> now,
     records_processed |-> records_processed, status |-> status,
     error_message |-> error_message, completed_at |-> now]

\* ----------------------------------------------------------------- history
NoResult == [pending |-> TRUE]

\* what is remembered of one invocation of main(): the sizes of the tables
\* it found, the outcome of its watermark lookup (wm, and seen = rows of
\* etl_runs then), the lower bound of its query, the source rows visible
\* to the query and the number of rows it extracted, the components invoked, the outcome of to_sql, whether its
\* etl_runs row was written, and its result
NewLog(p) ==
    [proc |-> p, batch_id |-> now, etlBefore |-> Len(etl_runs),
     cleanBefore |-> Len(clean),
     lookup |-> "pending", wm |-> None, seen |-> 0, lower |-> None,
     visible |-> {}, extracted |-> None, invoked |-> {}, loadError |-> None,
     metaWritten |-> FALSE, result |-> NoResult]

\* the history with the entry of p's invocation replaced by e
Logged(p, e) == [hist EXCEPT ![p] = e]

Invoke(e, what) == [e EXCEPT !.invoked = @ \cup {what}]

StructuredResult(status, n, message) ==
    [status |-> status, records_processed |-> n, message |-> message]

NoMapping == [ok |-> TRUE, rules |-> << >>]

\* ------------------------------------------------------------------- Init
\* the target database as init_database leaves it, nothing extracted yet
ColdStart ==
    /\ source = {}
    /\ configFile \in {"absent", "nokeys", "badmapping"}
    /\ cleanColumns \in {InitCleanColumns, DashboardCleanColumns}
    /\ clean = << >>
    /\ etl_runs = << >>

\* the target database after one earlier invocation that found Row1 in the
\* source, loaded it and recorded COMPLETED
WarmStart ==
    /\ source = {Row1}
    /\ configFile = "default"
    /\ cleanColumns = DashboardCleanColumns
    /\ clean = CleanRows([columns |-> TransformColumns,
                          rows |-> TransformRows(<<Extracted(Row1, 0)>>,
                                                 FallbackCodeMapping)])
    /\ etl_runs = <<MetadataRow(1, "COMPLETED", NULL)>>

\* the target database after one earlier invocation that found Row1 in the
\* source and loaded it, but whose COMPLETED bookkeeping INSERT failed and
\* was swallowed by update_etl_metadata
UnrecordedStart ==
    /\ source = {Row1}
    /\ configFile = "default"
    /\ cleanColumns = DashboardCleanColumns
    /\ clean = CleanRows([columns |-> TransformColumns,
                          rows |-> TransformRows(<<Extracted(Row1, 0)>>,
                                                 FallbackCodeMapping)])
    /\ etl_runs = << >>

\* no invocation of main() has started
NotStarted ==
    /\ staging = << >>
    /\ pc = [p \in Procs |-> "idle"]
    /\ batch_id = [p \in Procs |-> 0]
    /\ code_mapping = [p \in Procs |-> NoMapping]
    /\ last_extraction = [p \in Procs |-> None]
    /\ raw_data = [p \in Procs |-> EmptyFrame]
    /\ clean_data = [p \in Procs |-> EmptyFrame]
    /\ records_loaded = [p \in Procs |-> 0]
    /\ error = [p \in Procs |-> ""]
    /\ result = [p \in Procs |-> NoResult]
    /\ runs = 0
    /\ hist = [p \in Procs |-> NewLog(p)]
    /\ prev = NewLog(0)

Init ==
    /\ now = 0
    /\ (ColdStart \/ WarmStart \/ UnrecordedStart)
    /\ other_runs = NoOtherRuns
    /\ NotStarted

\* ------------------------------------------------------------ environment
Tick ==
    /\ now < MaxTime
    /\ now' = now + 1
    /\ UNCHANGED <<source, configFile, cleanColumns, other_runs>>
    /\ UNCHANGED <<dbVars, procVars, histVars>>

\* a source event becomes visible; its event timestamp is not in the future
SourceInsert(r) ==
    /\ r \notin source
    /\ r.date <= now
    /\ source' = source \cup {r}
    /\ UNCHANGED <<now, configFile, cleanColumns, other_runs>>
    /\ UNCHANGED <<dbVars, procVars, histVars>>

\* ------------------------------------------------------------------ main()
\* QualityTransformer.__init__: the mapping it ends up with, by the state of
\* the configuration file
LoadedMapping ==
    CASE configFile = "absent" -> [ok |-> TRUE, rules |-> FallbackCodeMapping]
      [] configFile = "default" -> [ok |-> TRUE, rules |-> DumpedCodeMapping]
      [] OTHER -> [ok |-> FALSE, rules |-> << >>]

\* main() returns res (or lets the exception res pass): the orchestrator and
\* the locals of run() are gone
Finish(p, res) ==
    /\ pc' = [pc EXCEPT ![p] = "done"]
    /\ result' = [result EXCEPT ![p] = res]
    /\ last_extraction' = [last_extraction EXCEPT ![p] = None]
    /\ raw_data' = [raw_data EXCEPT ![p] = EmptyFrame]
    /\ clean_data' = [clean_data EXCEPT ![p] = EmptyFrame]
    /\ records_loaded' = [records_loaded EXCEPT ![p] = 0]
    /\ error' = [error EXCEPT ![p] = ""]
    /\ code_mapping' = [code_mapping EXCEPT ![p] = NoMapping]
    /\ UNCHANGED batch_id

\* main(): ETLOrchestrator() is constructed outside run()'s try block
Start(p) ==
    /\ pc[p] \in {"idle", "done"}
    /\ runs < MaxRuns
    /\ runs' = runs + 1
    /\ prev' = hist[p]
    /\ IF configFile = "nokeys"
       THEN \* KeyError is no FileNotFoundError: it leaves __init__ and main()
            /\ Finish(p, [exception |-> "KeyError"])
            /\ hist' = [hist EXCEPT ![p] =
                  [NewLog(p) EXCEPT !.result = [exception |-> "KeyError"]]]
            /\ UNCHANGED configFile
       ELSE /\ pc' = [pc EXCEPT ![p] = "watermark"]
            /\ result' = [result EXCEPT ![p] = NoResult]
            /\ batch_id' = [batch_id EXCEPT ![p] = now]
            /\ code_mapping' = [code_mapping EXCEPT ![p] = LoadedMapping]
            /\ hist' = [hist EXCEPT ![p] = NewLog(p)]
            /\ configFile' = IF configFile = "absent" THEN "default" ELSE configFile
            /\ UNCHANGED <<last_extraction, raw_data, clean_data,
                           records_loaded, error>>
    /\ UNCHANGED <<now, source, cleanColumns, other_runs, dbVars>>

\* _extract_incremental, first half: get_last_extraction_time(), with the
\* target reachable (up) or not
ReadWatermark(p) ==
    /\ pc[p] = "watermark"
    /\ \E up \in BOOLEAN : \E w \in get_last_extraction_time(up) :
          /\ last_extraction' = [last_extraction EXCEPT ![p] = w]
          /\ hist' = Logged(p, LET e == hist[p] IN
                [e EXCEPT !.lookup = IF up THEN "ok" ELSE "failed",
                          !.wm = w, !.seen = Len(etl_runs),
                          !.invoked = @ \cup {"extract"}])
    /\ pc' = [pc EXCEPT ![p] = "query"]
    /\ UNCHANGED <<envVars, dbVars, runs, prev>>
    /\ UNCHANGED <<batch_id, code_mapping, raw_data, clean_data,
                   records_loaded, error, result>>

LowerBound(last) == IF last # None THEN last[1] ELSE now - BootstrapDays

\* mutant: run() does not test raw_data.empty
ExtractQuery_NoShortCircuit(p) ==
    LET rows == ExtractRows(last_extraction[p], p)
        cols == SourceColumns \cup {"source_record_hash", "batch_id", "extracted_at"}
    IN /\ pc[p] = "query"
       /\ raw_data' = [raw_data EXCEPT ![p] = [columns |-> cols, rows |-> rows]]
       /\ pc' = [pc EXCEPT ![p] = "transform"]
       /\ hist' = Logged(p, LET e == hist[p] IN
             [e EXCEPT !.lower = Some(LowerBound(last_extraction[p])),
                       !.visible = source,
                       !.extracted = Some(Len(rows))])
       /\ UNCHANGED <<batch_id, code_mapping, last_extraction,
                      clean_data, records_loaded, error, result>>
       /\ UNCHANGED <<envVars, dbVars, runs, prev>>

\* mutant: the short-circuit records the empty run as COMPLETED
ExtractQuery_RecordsEmptyRun(p) ==
    LET rows == ExtractRows(last_extraction[p], p)
        cols == SourceColumns \cup {"source_record_hash", "batch_id", "extracted_at"}
        res == StructuredResult("success", 0, "No new data")
    IN /\ pc[p] = "query"
       /\ IF rows = << >>
          THEN /\ Finish(p, res)
               /\ etl_runs' = Append(etl_runs, MetadataRow(0, "COMPLETED", NULL))
               /\ hist' = Logged(p, LET e == hist[p] IN
                     [e EXCEPT !.lower = Some(LowerBound(last_extraction[p])),
                               !.visible = source,
                               !.extracted = Some(0), !.result = res])
          ELSE /\ raw_data' = [raw_data EXCEPT ![p] = [columns |-> cols, rows |-> rows]]
               /\ pc' = [pc EXCEPT ![p] = "transform"]
               /\ hist' = Logged(p, LET e == hist[p] IN
                     [e EXCEPT !.lower = Some(LowerBound(last_extraction[p])),
                               !.visible = source,
                               !.extracted = Some(Len(rows))])
               /\ UNCHANGED <<batch_id, code_mapping, last_extraction,
                              clean_data, records_loaded, error, result>>
               /\ UNCHANGED etl_runs
       /\ UNCHANGED <<envVars, clean, staging, runs, prev>>

\* _extract_incremental, second half: the source query and the stamping;
\* an empty frame ends run() at once
ExtractQuery(p) ==
    LET rows == ExtractRows(last_extraction[p], p)
        cols == SourceColumns \cup {"source_record_hash", "batch_id", "extracted_at"}
        res == StructuredResult("success", 0, "No new data")
    IN /\ pc[p] = "query"
       /\ IF rows = << >>
          THEN /\ Finish(p, res)
               /\ hist' = Logged(p, LET e == hist[p] IN
                     [e EXCEPT !.lower = Some(LowerBound(last_extraction[p])),
                               !.visible = source,
                               !.extracted = Some(0), !.result = res])
          ELSE /\ raw_data' = [raw_data EXCEPT ![p] = [columns |-> cols, rows |-> rows]]
               /\ pc' = [pc EXCEPT ![p] = "transform"]
               /\ hist' = Logged(p, LET e == hist[p] IN
                     [e EXCEPT !.lower = Some(LowerBound(last_extraction[p])),
                               !.visible = source,
                               !.extracted = Some(Len(rows))])
               /\ UNCHANGED <<batch_id, code_mapping, last_extraction,
                              clean_data, records_loaded, error, result>>
       /\ UNCHANGED <<envVars, dbVars, runs, prev>>

\* pd.read_sql raises (source unreachable); run() turns it into a result
ExtractRaises(p) ==
    LET res == StructuredResult("error", 0, "could not connect to source")
    IN /\ pc[p] = "query"
       /\ Finish(p, res)
       /\ hist' = Logged(p, LET e == hist[p] IN
             [e EXCEPT !.lower = Some(LowerBound(last_extraction[p])),
                       !.result = res])
       /\ UNCHANGED <<envVars, dbVars, runs, prev>>

\* mutant: the except clause of transform() returns the frame as far as it
\* got (filtered, not normalised) instead of raising
Transform_HalfCleaned(p) ==
    /\ pc[p] = "transform"
    /\ raw_data' = [raw_data EXCEPT ![p].columns = @ \cup DefaultTargetColumns]
    /\ clean_data' = [clean_data EXCEPT ![p] =
          [columns |-> TransformColumns,
           rows |-> TransformRows(raw_data[p].rows, code_mapping[p].rules)]]
    /\ pc' = [pc EXCEPT ![p] = "load"]
    /\ hist' = Logged(p, LET e == hist[p] IN Invoke(e, "transform"))
    /\ UNCHANGED <<batch_id, code_mapping, last_extraction,
                   records_loaded, error, result>>
    /\ UNCHANGED <<envVars, dbVars, runs, prev>>

\* QualityTransformer.transform(raw_data); steps 1-2 change raw_data itself
Transform(p) ==
    LET res == StructuredResult("error", 0, "'list' object has no attribute 'items'")
    IN /\ pc[p] = "transform"
       /\ IF raw_data[p].rows = << >>
          THEN \* an empty frame is returned as it is
               /\ clean_data' = [clean_data EXCEPT ![p] = raw_data[p]]
               /\ pc' = [pc EXCEPT ![p] = "load"]
               /\ hist' = Logged(p, LET e == hist[p] IN Invoke(e, "transform"))
               /\ UNCHANGED <<batch_id, code_mapping, last_extraction,
                              raw_data, records_loaded, error, result>>
          ELSE IF code_mapping[p].ok
          THEN /\ raw_data' = [raw_data EXCEPT
                     ![p].columns = @ \cup DefaultTargetColumns]
               /\ clean_data' = [clean_data EXCEPT ![p] =
                     [columns |-> TransformColumns,
                      rows |-> TransformRows(raw_data[p].rows, code_mapping[p].rules)]]
               /\ pc' = [pc EXCEPT ![p] = "load"]
               /\ hist' = Logged(p, LET e == hist[p] IN Invoke(e, "transform"))
               /\ UNCHANGED <<batch_id, code_mapping, last_extraction,
                              records_loaded, error, result>>
          ELSE /\ Finish(p, res)
               /\ hist' = Logged(p, LET e == hist[p] IN
                     [Invoke(e, "transform") EXCEPT !.result = res])
       /\ UNCHANGED <<envVars, dbVars, runs, prev>>

\* mutant: to_sql is called with if_exists='replace'
LoadStep_Replace(p, up) ==
    LET frame == clean_data[p]
        err == ToSqlError(frame, up)
    IN /\ pc[p] = "load"
       /\ IF frame.rows = << >>
          THEN \* load() returns 0 before any write
               /\ records_loaded' = [records_loaded EXCEPT ![p] = 0]
               /\ pc' = [pc EXCEPT ![p] = "mark"]
               /\ hist' = Logged(p, LET e == hist[p] IN Invoke(e, "load"))
               /\ UNCHANGED <<clean, error>>
          ELSE IF err = ""
          THEN /\ clean' = CleanRows(frame)
               /\ records_loaded' = [records_loaded EXCEPT ![p] = Len(frame.rows)]
               /\ pc' = [pc EXCEPT ![p] = "meta_completed"]
               /\ hist' = Logged(p, LET e == hist[p] IN
                     [Invoke(e, "load") EXCEPT !.loadError = Some("")])
               /\ UNCHANGED error
          ELSE /\ error' = [error EXCEPT ![p] = err]
               /\ pc' = [pc EXCEPT ![p] = "meta_failed"]
               /\ hist' = Logged(p, LET e == hist[p] IN
                     [Invoke(e, "load") EXCEPT !.loadError = Some(err)])
               /\ UNCHANGED <<clean, records_loaded>>
       /\ UNCHANGED <<envVars, etl_runs, staging, runs, prev>>
       /\ UNCHANGED <<batch_id, code_mapping, last_extraction, raw_data,
                      clean_data, result>>

\* mutant: every row is committed as it is inserted; the first row of a
\* batch stays when the load raises after it
LoadStep_Partial(p, up) ==
    LET frame == clean_data[p]
        err == ToSqlError(frame, up)
    IN /\ pc[p] = "load"
       /\ IF frame.rows = << >>
          THEN \* load() returns 0 before any write
               /\ records_loaded' = [records_loaded EXCEPT ![p] = 0]
               /\ pc' = [pc EXCEPT ![p] = "mark"]
               /\ hist' = Logged(p, LET e == hist[p] IN Invoke(e, "load"))
               /\ UNCHANGED <<clean, error>>
          ELSE IF err = ""
          THEN /\ clean' = clean \o CleanRows(frame)
               /\ records_loaded' = [records_loaded EXCEPT ![p] = Len(frame.rows)]
               /\ pc' = [pc EXCEPT ![p] = "meta_completed"]
               /\ hist' = Logged(p, LET e == hist[p] IN
                     [Invoke(e, "load") EXCEPT !.loadError = Some("")])
               /\ UNCHANGED error
          ELSE /\ error' = [error EXCEPT ![p] = err]
               /\ pc' = [pc EXCEPT ![p] = "meta_failed"]
               /\ hist' = Logged(p, LET e == hist[p] IN
                     [Invoke(e, "load") EXCEPT !.loadError = Some(err)])
               /\ clean' = clean \o SubSeq(CleanRows(frame), 1, 1)
               /\ UNCHANGED records_loaded
       /\ UNCHANGED <<envVars, etl_runs, staging, runs, prev>>
       /\ UNCHANGED <<batch_id, code_mapping, last_extraction, raw_data,
                      clean_data, result>>

\* mutant: load() does not return early on an empty frame, it records the
\* run as COMPLETED with 0 records
LoadStep_RecordsEmpty(p, up) ==
    LET frame == clean_data[p]
        err == ToSqlError(frame, up)
    IN /\ pc[p] = "load"
       /\ IF frame.rows = << >>
          THEN \* load() goes on to its bookkeeping
               /\ records_loaded' = [records_loaded EXCEPT ![p] = 0]
               /\ pc' = [pc EXCEPT ![p] = "meta_completed"]
               /\ hist' = Logged(p, LET e == hist[p] IN Invoke(e, "load"))
               /\ UNCHANGED <<clean, error>>
          ELSE IF err = ""
          THEN /\ clean' = clean \o CleanRows(frame)
               /\ records_loaded' = [records_loaded EXCEPT ![p] = Len(frame.rows)]
               /\ pc' = [pc EXCEPT ![p] = "meta_completed"]
               /\ hist' = Logged(p, LET e == hist[p] IN
                     [Invoke(e, "load") EXCEPT !.loadError = Some("")])
               /\ UNCHANGED error
          ELSE /\ error' = [error EXCEPT ![p] = err]
               /\ pc' = [pc EXCEPT ![p] = "meta_failed"]
               /\ hist' = Logged(p, LET e == hist[p] IN
                     [Invoke(e, "load") EXCEPT !.loadError = Some(err)])
               /\ UNCHANGED <<clean, records_loaded>>
       /\ UNCHANGED <<envVars, etl_runs, staging, runs, prev>>
       /\ UNCHANGED <<batch_id, code_mapping, last_extraction, raw_data,
                      clean_data, result>>

\* DatabaseLoader.load up to the return of load_to_clean, with the target
\* reachable (up) or not
LoadStep(p, up) ==
    LET frame == clean_data[p]
        err == ToSqlError(frame, up)
    IN /\ pc[p] = "load"
       /\ IF frame.rows = << >>
          THEN \* load() returns 0 before any write
               /\ records_loaded' = [records_loaded EXCEPT ![p] = 0]
               /\ pc' = [pc EXCEPT ![p] = "mark"]
               /\ hist' = Logged(p, LET e == hist[p] IN Invoke(e, "load"))
               /\ UNCHANGED <<clean, error>>
          ELSE IF err = ""
          THEN /\ clean' = clean \o CleanRows(frame)
               /\ records_loaded' = [records_loaded EXCEPT ![p] = Len(frame.rows)]
               /\ pc' = [pc EXCEPT ![p] = "meta_completed"]
               /\ hist' = Logged(p, LET e == hist[p] IN
                     [Invoke(e, "load") EXCEPT !.loadError = Some("")])
               /\ UNCHANGED error
          ELSE /\ error' = [error EXCEPT ![p] = err]
               /\ pc' = [pc EXCEPT ![p] = "meta_failed"]
               /\ hist' = Logged(p, LET e == hist[p] IN
                     [Invoke(e, "load") EXCEPT !.loadError = Some(err)])
               /\ UNCHANGED <<clean, records_loaded>>
       /\ UNCHANGED <<envVars, etl_runs, staging, runs, prev>>
       /\ UNCHANGED <<batch_id, code_mapping, last_extraction, raw_data,
                      clean_data, result>>

Load(p) == \E up \in BOOLEAN : LoadStep(p, up)

\* update_etl_metadata: the INSERT, whose failure (up = FALSE) is logged and
\* swallowed
update_etl_metadata(p, up, records_processed, status, error_message) ==
    IF up
    THEN /\ etl_runs' = Append(etl_runs,
               MetadataRow(records_processed, status, error_message))
         /\ hist' = Logged(p, LET e == hist[p] IN [e EXCEPT !.metaWritten = TRUE])
    ELSE UNCHANGED <<etl_runs, hist>>

\* load(), after load_to_clean returned: the COMPLETED bookkeeping
MetaCompleted(p) ==
    /\ pc[p] = "meta_completed"
    /\ \E up \in BOOLEAN :
          update_etl_metadata(p, up, records_loaded[p], "COMPLETED", NULL)
    /\ pc' = [pc EXCEPT ![p] = "mark"]
    /\ UNCHANGED <<envVars, clean, staging, runs, prev>>
    /\ UNCHANGED <<batch_id, code_mapping, last_extraction, raw_data,
                   clean_data, records_loaded, error, result>>

\* load(), after load_to_clean raised: the FAILED bookkeeping, then the
\* re-raise, which run()'s except clause turns into a result
MetaFailed(p) ==
    LET res == StructuredResult("error", 0, error[p])
    IN /\ pc[p] = "meta_failed"
       /\ \E up \in BOOLEAN :
             IF up
             THEN /\ etl_runs' = Append(etl_runs,
                        MetadataRow(0, "FAILED", "Load operation failed: " \o error[p]))
                  /\ hist' = Logged(p, LET e == hist[p] IN
                        [e EXCEPT !.metaWritten = TRUE, !.result = res])
             ELSE /\ hist' = Logged(p, LET e == hist[p] IN [e EXCEPT !.result = res])
                  /\ UNCHANGED etl_runs
       /\ Finish(p, res)
       /\ UNCHANGED <<envVars, clean, staging, runs, prev>>

\* mark_staging_processed(batch_id), then run() returns its result
MarkStaging(p) ==
    LET res == StructuredResult("success", records_loaded[p],
                  "Processed " \o ToString(records_loaded[p]) \o " records")
    IN /\ pc[p] = "mark"
       /\ \E up \in BOOLEAN :
             staging' = IF up
                        THEN [i \in DOMAIN staging |->
                                IF staging[i].batch_id = batch_id[p]
                                THEN [staging[i] EXCEPT !.is_processed = TRUE]
                                ELSE staging[i]]
                        ELSE staging
       /\ Finish(p, res)
       /\ hist' = Logged(p, LET e == hist[p] IN
             [Invoke(e, "mark") EXCEPT !.result = res])
       /\ UNCHANGED <<envVars, clean, etl_runs, runs, prev>>

Run(p) ==
    \/ Start(p)
    \/ ReadWatermark(p)
    \/ ExtractQuery(p)
    \/ ExtractRaises(p)
    \/ Transform(p)
    \/ Load(p)
    \/ MetaCompleted(p)
    \/ MetaFailed(p)
    \/ MarkStaging(p)

Next ==
    \/ Tick
    \/ \E r \in SourceRows : SourceInsert(r)
    \/ \E p \in Scheduled : Run(p)

Spec == Init /\ [][Next]_vars

\* ------------------------------------------------ watermark lookup alone
\* rows an etl_runs table may hold: of this job, COMPLETED or FAILED, and
\* of another job
RunRow(job, status, at) ==
    [job_name |-> job, last_successful_extraction |-> at,
     records_processed |-> 1, status |-> status,
     error_message |-> NULL, completed_at |-> at]

RunRows ==
    {RunRow(JobName, "COMPLETED", 0), RunRow(JobName, "COMPLETED", 1),
     RunRow(JobName, "FAILED", 1), RunRow("other_job", "COMPLETED", 1)}

\* a table left in the schema public or quality by an older deployment:
\* absent, empty, or with one COMPLETED row older than anything in
\* etl_metadata
OtherTables(at) == {None, Some(<< >>), Some(<<RunRow(JobName, "COMPLETED", at)>>)}

\* an invocation is about to look the watermark up; etl_metadata.etl_runs
\* holds up to MaxBatch rows in the order they were completed
InitLookup ==
    /\ now = 1
    /\ source = {Row1}
    /\ configFile = "default"
    /\ cleanColumns = DashboardCleanColumns
    /\ clean = << >>
    /\ etl_runs \in {t \in Batches(RunRows) :
                       \A i, j \in DOMAIN t :
                          i < j => t[i].completed_at <= t[j].completed_at}
    /\ \E pub \in OtherTables(0 - 1) : \E qua \in OtherTables(0 - 2) :
          other_runs = [schema \in {"public", "quality"} |->
                          IF schema = "public" THEN pub ELSE qua]
    /\ staging = << >>
    /\ pc = [p \in Procs |-> IF p = 1 THEN "watermark" ELSE "idle"]
    /\ batch_id = [p \in Procs |-> 1]
    /\ code_mapping = [p \in Procs |-> [ok |-> TRUE, rules |-> DumpedCodeMapping]]
    /\ last_extraction = [p \in Procs |-> None]
    /\ raw_data = [p \in Procs |-> EmptyFrame]
    /\ clean_data = [p \in Procs |-> EmptyFrame]
    /\ records_loaded = [p \in Procs |-> 0]
    /\ error = [p \in Procs |-> ""]
    /\ result = [p \in Procs |-> NoResult]
    /\ runs = 1
    /\ hist = [p \in Procs |-> NewLog(p)]
    /\ prev = NewLog(0)

NextLookup == ReadWatermark(1) \/ ExtractQuery(1)

SpecLookup == InitLookup /\ [][NextLookup]_vars

\* ------------------------------------------------------ extraction alone
\* Row4 with an empty serial number, and Row4 and Row1 as a source table
\* without a serial_number column delivers them
Row4Empty == [Row4 EXCEPT !.serial_number = ""]
Row4NoSerial ==
    [part_number |-> PartB, date |-> 1, code_description |-> PointCassee,
     machine_no |-> "M1"]
Row1NoSerial ==
    [part_number |-> PartA, date |-> 0, code_description |-> DescPointSaute,
     machine_no |-> "M1"]

HashRows == {Row1, Row2, Row3, Row4, Row4Empty, Row4NoSerial, Row1NoSerial}

\* two invocations, constructed at different times, are about to run the
\* incremental query on the same source table (all rows of a table have the
\* same columns)
InitExtract ==
    /\ now = 1
    /\ source \in {S \in SUBSET HashRows :
                     /\ Cardinality(S) <= MaxBatch
                     /\ \A a, b \in S : DOMAIN a = DOMAIN b}
    /\ configFile = "default"
    /\ cleanColumns = DashboardCleanColumns
    /\ clean = << >>
    /\ etl_runs = << >>
    /\ other_runs = NoOtherRuns
    /\ staging = << >>
    /\ pc = [p \in Procs |-> "query"]
    /\ batch_id = [p \in Procs |-> p - 1]
    /\ code_mapping = [p \in Procs |-> [ok |-> TRUE, rules |-> DumpedCodeMapping]]
    /\ \E w \in {None, Some(0)} : last_extraction = [p \in Procs |-> w]
    /\ raw_data = [p \in Procs |-> EmptyFrame]
    /\ clean_data = [p \in Procs |-> EmptyFrame]
    /\ records_loaded = [p \in Procs |-> 0]
    /\ error = [p \in Procs |-> ""]
    /\ result = [p \in Procs |-> NoResult]
    /\ runs = MaxRuns
    /\ hist = [p \in Procs |-> NewLog(p)]
    /\ prev = NewLog(0)

NextExtract == \E p \in Procs : ExtractQuery(p)

SpecExtract == InitExtract /\ [][NextExtract]_vars

\* ------------------------------------------------------ transform() alone
Part15 == "CCCCCCCCCCCCCCC"
Part14 == "DDDDDDDDDDDDDD"
DescWireRouge ==
    <<"m","a","n","q","u","e"," ","c","a","b","l","e"," ","w","i","r","e",
      " ","r","o","u","g","e">>
DescPadded == <<" ","M","a","n","q","u","e"," ","C","a","b","l","e"," ">>

\* a configured mapping of two rules, the longer phrase declared first
ExampleMapping ==
    << <<ManqueCableWire, ManqueCableCanon>>,
       <<ManqueCable, ManqueCableCanon>> >>

\* a row of an extracted frame: part number, parsed date (None where
\* parse_source_date gave NaT), description; the serial number tells the
\* rows apart
RawRow(part, date, desc, serial) ==
    [part_number |-> part, serial_number |-> serial, date |-> date,
     code_description |-> desc, machine_no |-> "M1",
     source_record_hash |->
        [part |-> PyStr(part), serial |-> serial,
         date |-> IF date = None THEN "NaT" ELSE ToString(date[1]),
         desc |-> desc],
     batch_id |-> 0]

\* frames transform() may be handed: valid rows, a short part number, part
\* numbers of exactly 15 and 14 characters, an unparsed date, a null part
\* number
TransformInputs ==
    {RawRow(PartA, Some(0), DescPointSaute, "T1"),
     RawRow("SHORT123", Some(0), DescOk, "T2"),
     RawRow(Part15, Some(1), DescPadded, "T3"),
     RawRow(Part14, Some(1), DescOk, "T4"),
     RawRow(PartB, None, DescOk, "T5"),
     RawRow(NULL, Some(0), DescOk, "T6"),
     RawRow(PartA, Some(1), DescWireRouge, "T7")}

\* run() has extracted a frame and is about to call transform(); a frame
\* without a part_number column has no part numbers
InitTransform ==
    /\ now = 0
    /\ source = {}
    /\ configFile = "default"
    /\ cleanColumns = DashboardCleanColumns
    /\ clean = << >>
    /\ etl_runs = << >>
    /\ other_runs = NoOtherRuns
    /\ staging = << >>
    /\ pc = [p \in Procs |-> IF p = 1 THEN "transform" ELSE "idle"]
    /\ batch_id = [p \in Procs |-> 0]
    /\ \E rules \in {FallbackCodeMapping, DumpedCodeMapping, ExampleMapping} :
          code_mapping = [p \in Procs |->
              IF p = 1 THEN [ok |-> TRUE, rules |-> rules] ELSE NoMapping]
    /\ last_extraction = [p \in Procs |-> None]
    /\ \E rows \in Batches(TransformInputs) :
       \E cols \in {SourceColumns, SourceColumns \ {"part_number"}} :
          /\ "part_number" \notin cols =>
                \A i \in DOMAIN rows : rows[i].part_number = NULL
          /\ raw_data = [p \in Procs |->
                IF p = 1
                THEN [columns |-> cols \cup {"source_record_hash", "batch_id",
                                             "extracted_at"},
                      rows |-> rows]
                ELSE EmptyFrame]
    /\ clean_data = [p \in Procs |-> EmptyFrame]
    /\ records_loaded = [p \in Procs |-> 0]
    /\ error = [p \in Procs |-> ""]
    /\ result = [p \in Procs |-> NoResult]
    /\ runs = 1
    /\ hist = [p \in Procs |-> NewLog(p)]
    /\ prev = NewLog(0)

NextTransform == Transform(1) \/ Load(1)

SpecTransform == InitTransform /\ [][NextTransform]_vars

\* -------------------------------------------------- overlapping invocations
\* two invocations of main() (two scheduler firings) against a freshly
\* initialised target whose clean table has who_made_it, the configuration
\* file already written, and one source row waiting
InitConcurrent ==
    /\ now = 0
    /\ source = {Row1}
    /\ configFile = "default"
    /\ cleanColumns = DashboardCleanColumns
    /\ clean = << >>
    /\ etl_runs = << >>
    /\ other_runs = NoOtherRuns
    /\ NotStarted

NextConcurrent == \E p \in Procs : Run(p)

SpecConcurrent == InitConcurrent /\ [][NextConcurrent]_vars

\* ================================================================= claims
\* the rows of an etl_runs table that a watermark may come from
CompletedIdx(rows) ==
    {i \in DOMAIN rows :
        rows[i].job_name = JobName /\ rows[i].status = "COMPLETED"}

\* the watermark a table holds: the last_successful_extraction of its most
\* recently completed COMPLETED row, None when it has none
Watermarks(rows) ==
    IF CompletedIdx(rows) = {} THEN {None}
    ELSE {Some(rows[i].last_successful_extraction) :
            i \in {k \in CompletedIdx(rows) :
                     \A j \in CompletedIdx(rows) :
                        rows[j].completed_at <= rows[k].completed_at}}

LoadRaised(e) == e.loadError # None /\ e.loadError # Some("")

\* the source rows newer than the lower bound p's query is about to use
NewerRows(p) ==
    {r \in source :
        IF last_extraction[p] = None THEN r.date >= now - BootstrapDays
        ELSE r.date > last_extraction[p][1]}

\* C1 (as claimed): the clean table never holds two rows that come from
\* source records with the same content fingerprint.
C1_FingerprintUnique ==
    \A i, j \in DOMAIN clean : i # j => clean[i].origin # clean[j].origin

C3_Original ==
    \A p \in Scheduled :
        (LoadRaised(prev) /\ hist[p].lower # None) => hist[p].lower = prev.lower

\* C3 (amended): after a run whose load raised, a successful watermark lookup
\* of the next run returns the watermark etl_runs held before the failed run
\* (its FAILED row is never selected); the lower bounds of the two runs are
\* equal when both lookups succeeded and found a watermark.
C3_Amended ==
    \A p \in Scheduled :
        (LoadRaised(prev) /\ hist[p].lookup = "ok") =>
            /\ hist[p].wm \in Watermarks(SubSeq(etl_runs, 1, prev.etlBefore))
            /\ prev.lookup = "ok" => hist[p].wm = prev.wm
            /\ (prev.lookup = "ok" /\ hist[p].wm # None /\ hist[p].lower # None)
                  => hist[p].lower = prev.lower

C3_Witness ==
    \E p \in Scheduled :
        /\ LoadRaised(prev)
        /\ prev.metaWritten
        /\ prev.lookup = "ok"
        /\ hist[p].lookup = "ok"
        /\ hist[p].wm # None
        /\ hist[p].lower # None

\* C4 (as claimed): the lower bound of an extraction is never below the
\* watermark of a COMPLETED row recorded before it.
C4_Original ==
    \A p \in Scheduled :
        hist[p].lower # None =>
            \A k \in 1..hist[p].seen :
                etl_runs[k].status = "COMPLETED" =>
                    hist[p].lower[1] >= etl_runs[k].last_successful_extraction

\* C4 (amended): the lower bound of an extraction whose watermark lookup
\* succeeded is never below the watermark of a COMPLETED row recorded
\* before it.
C4_Amended ==
    \A p \in Scheduled :
        (hist[p].lower # None /\ hist[p].lookup = "ok") =>
            \A k \in 1..hist[p].seen :
                etl_runs[k].status = "COMPLETED" =>
                    hist[p].lower[1] >= etl_runs[k].last_successful_extraction

C4_Witness ==
    \E p \in Scheduled :
        /\ hist[p].lower # None
        /\ hist[p].lookup = "ok"
        /\ \E j, k \in 1..hist[p].seen :
              /\ etl_runs[j].status = "COMPLETED"
              /\ etl_runs[k].status = "COMPLETED"
              /\ etl_runs[j].last_successful_extraction
                    < etl_runs[k].last_successful_extraction

\* C5: when the query returns and the source has no row newer than the
\* lower bound, run() ends in that step with status success, 0 records and
\* the message "No new data"; neither the Transformer nor the Loader is
\* invoked and no table is written.
C5_NoNewData ==
    [][\A p \in Scheduled :
          (pc[p] = "query" /\ hist'[p].extracted # None /\ NewerRows(p) = {}) =>
              /\ pc'[p] = "done"
              /\ result'[p] = [status |-> "success", records_processed |-> 0,
                               message |-> "No new data"]
              /\ hist'[p].invoked = {"extract"}
              /\ clean' = clean
              /\ etl_runs' = etl_runs]_vars

C5_Witness ==
    \E p \in Scheduled :
        /\ pc[p] = "done"
        /\ hist[p].extracted = Some(0)
        /\ hist[p].wm # None
        /\ source # {}

C7_StructuredResult ==
    \A p \in Scheduled :
        pc[p] = "done" =>
            /\ DOMAIN result[p] = {"status", "records_processed", "message"}
            /\ result[p].status \in {"success", "error"}

\* C8 (as claimed): every finished invocation has left exactly one new row
\* in etl_runs, with status COMPLETED or FAILED.
C8_OneRowPerRun ==
    \A p \in Scheduled :
        pc[p] = "done" =>
            /\ Len(etl_runs) = hist[p].etlBefore + 1
            /\ etl_runs[Len(etl_runs)].status \in {"COMPLETED", "FAILED"}

\* C9 (as claimed): when load() has returned n > 0, one COMPLETED row with
\* records_processed = n has been written by this invocation, also when the
\* metadata INSERT can fail.
C9_CompletedRowWritten ==
    \A p \in Scheduled :
        (pc[p] = "mark" /\ records_loaded[p] > 0) =>
            /\ Len(etl_runs) = hist[p].etlBefore + 1
            /\ etl_runs[Len(etl_runs)].status = "COMPLETED"
            /\ etl_runs[Len(etl_runs)].records_processed = records_loaded[p]
            /\ Some(etl_runs[Len(etl_runs)].last_successful_extraction)
                  \in Watermarks(etl_runs)

\* C10 (as claimed): when the load fails because the target is unreachable,
\* the result is status error with 0 records and etl_runs has one new row,
\* FAILED, 0 records, with an error message.
C10_FailedRowWritten ==
    \A p \in Scheduled :
        (pc[p] = "done" /\ hist[p].loadError = Some("could not connect to server")) =>
            /\ result[p].status = "error"
            /\ result[p].records_processed = 0
            /\ Len(etl_runs) = hist[p].etlBefore + 1
            /\ etl_runs[Len(etl_runs)].status = "FAILED"
            /\ etl_runs[Len(etl_runs)].records_processed = 0
            /\ etl_runs[Len(etl_runs)].error_message # NULL

\* the fingerprint of source row r as the extractor computes it is what a
\* clean row's origin records; the source rows a query with lower bound
\* lower selects, and those of them that pass validation
WindowRows(lower) == {r \in source : r.date >= lower[1]}

IsValidSource(r) ==
    /\ r.part_number # NULL
    /\ Len(r.part_number) >= MinPartLen

CopiesOf(r) ==
    Cardinality({i \in DOMAIN clean : clean[i].origin = create_record_hash(r)})

\* C11 (as claimed): when a run failed in load and the next run, with the
\* target reachable and the source unchanged, re-extracts the same window
\* and loads it, every valid source row of that window is in the clean
\* table exactly once.
C11_RetryExactlyOnce ==
    \A p \in Scheduled :
        (/\ pc[p] = "meta_completed"
         /\ LoadRaised(prev)
         /\ hist[p].lookup = "ok"
         /\ hist[p].lower # None
         /\ hist[p].lower = prev.lower
         /\ hist[p].extracted = prev.extracted
         /\ Cardinality(WindowRows(hist[p].lower)) = hist[p].extracted[1])
        => \A r \in WindowRows(hist[p].lower) :
              IsValidSource(r) => CopiesOf(r) = 1

\* C12 (as claimed): a first run (empty clean table, no COMPLETED row) that
\* reaches the loader with k >= 1 valid rows of the bootstrap window, the
\* target being reachable throughout, makes the clean table gain exactly k
\* rows, returns records_processed = k and records one COMPLETED row with
\* records_processed = k.
C12_EndToEndCount ==
    \A p \in Scheduled :
        LET k == Cardinality({r \in source : IsValidSource(r)})
        IN (/\ pc[p] = "done"
            /\ hist[p].cleanBefore = 0
            /\ CompletedIdx(SubSeq(etl_runs, 1, hist[p].etlBefore)) = {}
            /\ hist[p].lookup = "ok"
            /\ hist[p].extracted = Some(Cardinality(source))
            /\ "load" \in hist[p].invoked
            /\ hist[p].loadError # Some("could not connect to server")
            /\ hist[p].loadError = Some("") => hist[p].metaWritten
            /\ k >= 1)
           => /\ Len(clean) = k
              /\ result[p] = [status |-> "success", records_processed |-> k,
                              message |-> "Processed " \o ToString(k) \o " records"]
              /\ Len(etl_runs) = hist[p].etlBefore + 1
              /\ etl_runs[Len(etl_runs)].status = "COMPLETED"
              /\ etl_runs[Len(etl_runs)].records_processed = k

\* the fingerprints of the rows of a table or batch
Origins(rows) == {rows[i].origin : i \in DOMAIN rows}

\* C13 (as claimed): when load_to_clean has returned for a batch of which
\* some records' fingerprints were already in the clean table and some were
\* not, the clean table has gained exactly the records with a new
\* fingerprint, one row each.
C13_CollisionPerRow ==
    \A p \in Scheduled :
        LET before == SubSeq(clean, 1, hist[p].cleanBefore)
            batch == clean_data[p].rows
            fresh == Origins(batch) \ Origins(before)
        IN (/\ pc[p] = "meta_completed"
            /\ Origins(batch) \cap Origins(before) # {}
            /\ fresh # {})
           => /\ Len(clean) = Len(before) + Cardinality(fresh)
              /\ Origins(SubSeq(clean, Len(before) + 1, Len(clean))) = fresh

\* C14 (as claimed): when two overlapping invocations have read the same
\* watermark and extracted the same source window, the clean table holds at
\* most one row per source event.
C14_NoDoubleLoad ==
    (/\ hist[1].lookup = "ok" /\ hist[2].lookup = "ok"
     /\ hist[1].wm = hist[2].wm
     /\ hist[1].lower # None /\ hist[1].lower = hist[2].lower
     /\ hist[1].extracted # None /\ hist[1].extracted = hist[2].extracted)
    => \A i, j \in DOMAIN clean : i # j => clean[i].origin # clean[j].origin

\* C15: when transform() raises (the mapping it holds cannot be iterated),
\* run() ends in that step with status error and 0 records, the Loader has
\* not been invoked, and neither the clean table nor etl_runs is written;
\* the load step is entered only from a transform step that returned, the
\* transform step only from a query that returned rows, and the clean table
\* is written only by the load step.
C15_TransformBeforeLoad ==
    [][\A p \in Scheduled :
          /\ (/\ pc[p] = "transform"
              /\ raw_data[p].rows # << >>
              /\ ~code_mapping[p].ok
              /\ pc'[p] # "transform")
             => /\ pc'[p] = "done"
                /\ result'[p].status = "error"
                /\ result'[p].records_processed = 0
                /\ "load" \notin hist'[p].invoked
                /\ clean' = clean
                /\ etl_runs' = etl_runs
          /\ (pc'[p] = "load" /\ pc[p] # "load")
             => /\ pc[p] = "transform"
                /\ code_mapping[p].ok
                /\ hist[p].extracted # None
                /\ hist[p].extracted[1] > 0
          /\ (pc'[p] = "transform" /\ pc[p] # "transform")
             => /\ pc[p] = "query"
                /\ raw_data'[p].rows # << >>
          /\ clean' # clean => pc[p] = "load"]_vars

C15_Witness ==
    \E p \in Scheduled :
        /\ pc[p] = "done"
        /\ hist[p].invoked = {"extract", "transform"}
        /\ hist[p].extracted # None
        /\ hist[p].extracted[1] > 0
        /\ result[p].status = "error"
        /\ Len(clean) = hist[p].cleanBefore
        /\ Len(etl_runs) = hist[p].etlBefore

\* a record is valid when its part number is present with at least 15
\* characters and its date parsed
RefValid(r) ==
    /\ r.part_number # NULL
    /\ Len(r.part_number) >= 15
    /\ r.date # None

\* C16: what transform() returns holds exactly the records of its input that
\* are valid, in their order (a null or absent part number is invalid), and
\* every row of the clean table has a part number of at least 15 characters
\* and a date.
C16_ValidationFilter ==
    /\ pc[1] \in {"load", "meta_completed", "meta_failed"} =>
          LET kept == SelectSeq(raw_data[1].rows, RefValid)
              out == clean_data[1].rows
          IN /\ Len(out) = Len(kept)
             /\ \A i \in DOMAIN out :
                   /\ out[i].origin = kept[i].source_record_hash
                   /\ out[i].part_number = kept[i].part_number
                   /\ Some(out[i].date) = kept[i].date
    /\ \A i \in DOMAIN clean :
          /\ clean[i].part_number # NULL
          /\ Len(clean[i].part_number) >= 15
          /\ clean[i].date \in Int

C16_Witness ==
    /\ pc[1] = "meta_completed"
    /\ \E i, j \in DOMAIN raw_data[1].rows :
          /\ raw_data[1].rows[i].part_number = Part15
          /\ ~RefValid(raw_data[1].rows[j])
    /\ Len(clean) = 1
    /\ clean[1].part_number = Part15

\* the reference procedure for descriptions: lower-case, trim, then rule
\* 1, rule 2, ... each replacing every occurrence of its phrase in the
\* output of the rules before it
RefLower(s) ==
    [i \in 1..Len(s) |->
        IF s[i] = "M" THEN "m" ELSE IF s[i] = "C" THEN "c"
        ELSE IF s[i] = "P" THEN "p" ELSE IF s[i] = "S" THEN "s" ELSE s[i]]

RefTrim(s) ==
    LET inked == {i \in 1..Len(s) : s[i] # " "}
    IN IF inked = {} THEN << >>
       ELSE SubSeq(s, CHOOSE i \in inked : \A j \in inked : i <= j,
                      CHOOSE i \in inked : \A j \in inked : j <= i)

RECURSIVE RefScan(_, _, _, _)
RefScan(s, i, old, new) ==
    IF i > Len(s) THEN << >>
    ELSE IF i + Len(old) - 1 <= Len(s) /\ SubSeq(s, i, i + Len(old) - 1) = old
         THEN new \o RefScan(s, i + Len(old), old, new)
         ELSE <<s[i]>> \o RefScan(s, i + 1, old, new)

RECURSIVE RefAfter(_, _, _)
RefAfter(s, rules, k) ==
    IF k = 0 THEN RefTrim(RefLower(s))
    ELSE RefScan(RefAfter(s, rules, k - 1), 1, rules[k][1], rules[k][2])

RefNormalize(s, rules) == RefAfter(s, rules, Len(rules))

\* C17: the description of every record transform() returns is the
\* reference procedure applied to the record's input description with the
\* rules the transformer holds, in their order; with the rules
\* ('manque cable wire' -> 'manque ca^ble'), ('manque cable' -> 'manque
\* ca^ble') the input 'manque cable wire rouge' gives 'manque ca^ble rouge'.
C17_NormalizationOrder ==
    pc[1] = "load" =>
        LET kept == SelectSeq(raw_data[1].rows, RefValid)
            out == clean_data[1].rows
            rules == code_mapping[1].rules
        IN \A i \in DOMAIN out :
              /\ out[i].code_description
                    = RefNormalize(kept[i].code_description, rules)
              /\ (rules = ExampleMapping /\ kept[i].code_description = DescWireRouge)
                    => out[i].code_description
                          = ManqueCableCanon \o <<" ","r","o","u","g","e">>

C17_Witness ==
    /\ pc[1] = "load"
    /\ code_mapping[1].rules = ExampleMapping
    /\ \E i \in DOMAIN clean_data[1].rows :
          clean_data[1].rows[i].code_description
             = <<"m","a","n","q","u","e"," ","c","a^","b","l","e"," ","r","o","u","g","e">>

\* two extracted rows agree on the four hashed fields
SameHashedFields(a, b) ==
    /\ a.part_number = b.part_number
    /\ a.serial_number = b.serial_number
    /\ a.date = b.date
    /\ a.code_description = b.code_description

\* C18: two extracted rows that agree on part number, serial number, date
\* and description carry the same fingerprint, whichever invocation
\* fingerprinted them and whatever their other fields are.
C18_FingerprintDependsOnFourFields ==
    \A p, q \in Procs :
        \A i \in DOMAIN raw_data[p].rows : \A j \in DOMAIN raw_data[q].rows :
            SameHashedFields(raw_data[p].rows[i], raw_data[q].rows[j])
                => raw_data[p].rows[i].source_record_hash
                      = raw_data[q].rows[j].source_record_hash

C18_Witness ==
    /\ \E i, j \in DOMAIN raw_data[1].rows :
          /\ raw_data[1].rows[i].machine_no = "M1"
          /\ raw_data[1].rows[j].machine_no = "M2"
          /\ SameHashedFields(raw_data[1].rows[i], raw_data[1].rows[j])
    /\ \E j \in DOMAIN raw_data[2].rows :
          /\ raw_data[2].rows[j].batch_id # raw_data[1].rows[1].batch_id
          /\ SameHashedFields(raw_data[1].rows[1], raw_data[2].rows[j])

\* a hashed field that has no value counts as the empty string
Blank(v) == IF v = NULL THEN "" ELSE v

\* C19 (as claimed): two extracted rows that agree on the four hashed fields
\* once a missing serial number is read as the empty string carry the same
\* fingerprint.
C19_MissingFieldAsEmpty ==
    \A p \in Procs :
        \A i, j \in DOMAIN raw_data[p].rows :
            LET a == raw_data[p].rows[i]
                b == raw_data[p].rows[j]
            IN (/\ a.part_number = b.part_number
                /\ Blank(a.serial_number) = Blank(b.serial_number)
                /\ a.date = b.date
                /\ a.code_description = b.code_description)
               => a.source_record_hash = b.source_record_hash

\* a candidate location yields when its table exists and holds a COMPLETED
\* row of the job
RefTable(schema) ==
    IF schema = "etl_metadata" THEN Some(etl_runs) ELSE other_runs[schema]

Yields(schema) ==
    RefTable(schema) # None /\ CompletedIdx(RefTable(schema)[1]) # {}

RefWatermark ==
    IF Yields("etl_metadata") THEN Watermarks(RefTable("etl_metadata")[1])
    ELSE IF Yields("public") THEN Watermarks(RefTable("public")[1])
    ELSE IF Yields("quality") THEN Watermarks(RefTable("quality")[1])
    ELSE {None}

\* C20: a watermark lookup whose queries all raise returns no watermark and
\* the run goes on to query the bootstrap window (it does not end with an
\* error); a lookup that reaches the target returns the watermark of the
\* first of etl_metadata, public, quality whose table exists and holds a
\* COMPLETED row, and none when there is no such table.
C20_LookupNeverFatal ==
    /\ hist[1].lookup = "failed" => hist[1].wm = None
    /\ hist[1].lookup = "ok" => hist[1].wm \in RefWatermark
    /\ hist[1].lookup # "pending" =>
          /\ pc[1] \in {"query", "transform", "done"}
          /\ pc[1] = "query" => last_extraction[1] = hist[1].wm
          /\ pc[1] = "done" => result[1].status = "success"
          /\ (hist[1].lower # None /\ hist[1].wm = None)
                => hist[1].lower = Some(now - BootstrapDays)
          /\ (hist[1].lower # None /\ hist[1].wm # None)
                => hist[1].lower = hist[1].wm

C20_Witness ==
    /\ hist[1].lookup = "failed"
    /\ Yields("etl_metadata")
    /\ pc[1] = "transform"
    /\ hist[1].lower = Some(now - BootstrapDays)
    /\ raw_data[1].rows # << >>

\* the fingerprints of the rows of an extracted frame
Hashes(rows) == {rows[i].source_record_hash : i \in DOMAIN rows}

\* the invocation before the current one loaded its batch and recorded its
\* COMPLETED row; that row and its watermark
CompletedBefore == prev.loadError = Some("") /\ prev.metaWritten

RecordedWatermark == etl_runs[prev.etlBefore + 1].last_successful_extraction

\* the source rows that became visible after the query of the invocation
\* before and whose event timestamp is not later than its watermark
LateArrivals ==
    {r \in source \ prev.visible : r.date <= RecordedWatermark}

\* C21 (as claimed): a source event that becomes visible only after a run's
\* query, with an event timestamp not later than the watermark that run
\* recorded, is not extracted by the next run and is not loaded by it.
C21_Original ==
    \A p \in Scheduled :
        (CompletedBefore /\ hist[p].extracted # None) =>
            \A r \in LateArrivals :
                /\ pc[p] = "transform" =>
                      create_record_hash(r) \notin Hashes(raw_data[p].rows)
                /\ \A i \in (hist[p].cleanBefore + 1)..Len(clean) :
                      clean[i].origin # create_record_hash(r)

\* C21 (amended): a run whose watermark lookup succeeded extracts and loads
\* no source row whose event timestamp is not later than the watermark of a
\* COMPLETED row recorded before it, whenever that row became visible; a
\* late arrival is skipped by such a run.  (A run whose lookup failed
\* queries the bootstrap window and does extract it.)
C21_Amended ==
    \A p \in Scheduled :
        (hist[p].lookup = "ok" /\ hist[p].extracted # None) =>
            \A r \in source :
                (\E k \in 1..hist[p].seen :
                    /\ etl_runs[k].job_name = JobName
                    /\ etl_runs[k].status = "COMPLETED"
                    /\ r.date <= etl_runs[k].last_successful_extraction)
                => /\ pc[p] = "transform" =>
                         create_record_hash(r) \notin Hashes(raw_data[p].rows)
                   /\ \A i \in (hist[p].cleanBefore + 1)..Len(clean) :
                         clean[i].origin # create_record_hash(r)

\* a valid late arrival was visible to the query of the next run, whose
\* lookup succeeded and returned the watermark recorded before it
C21_Witness ==
    \E p \in Scheduled :
        /\ CompletedBefore
        /\ \E r \in LateArrivals : IsValidSource(r) /\ r \in hist[p].visible
        /\ hist[p].lookup = "ok"
        /\ hist[p].wm = Some(RecordedWatermark)
        /\ hist[p].extracted # None

\* the rows of the staging table that carry batch identifier bid
StagedOf(bid) == {i \in DOMAIN staging : staging[i].batch_id = bid}

\* C22 (as claimed): when a run has loaded n > 0 rows into the clean table,
\* the staging table holds the rows it extracted, under its batch
\* identifier, and after the mark-processed step exactly those rows have
\* is_processed set.
C22_StagedBeforeClean ==
    \A p \in Scheduled :
        /\ (pc[p] \in {"meta_completed", "mark"} /\ records_loaded[p] > 0) =>
              Cardinality(StagedOf(batch_id[p])) = hist[p].extracted[1]
        /\ (/\ pc[p] = "done"
            /\ "mark" \in hist[p].invoked
            /\ hist[p].result.records_processed > 0) =>
              /\ Cardinality(StagedOf(batch_id[p])) = hist[p].extracted[1]
              /\ \A i \in DOMAIN staging :
                    staging[i].is_processed <=> i \in StagedOf(batch_id[p])

\* C23 (as claimed): a transformer constructed while the configuration file
\* was absent holds the built-in mapping, and what its transform() returns
\* is what a transformer constructed from the file holding the defaults
\* (the file create_default_config has written by then) returns for the
\* same frame.
C23_FallbackAsConfigured ==
    (/\ pc[1] = "load"
     /\ code_mapping[1] = [ok |-> TRUE, rules |-> FallbackCodeMapping]
     /\ configFile = "default")
    => /\ LoadedMapping.ok
       /\ clean_data[1].rows
             = TransformRows(raw_data[1].rows, LoadedMapping.rules)

\* C24 (as claimed): every row an invocation has inserted into the clean
\* table carries in record_fingerprint the fingerprint the Extractor
\* computed for its source row: not null, and equal to the digest of that
\* row's part number, serial number, date and description.
C24_FingerprintWritten ==
    \A p \in Scheduled :
        \A i \in (hist[p].cleanBefore + 1)..Len(clean) :
            /\ clean[i].record_fingerprint # NULL
            /\ clean[i].record_fingerprint = clean[i].origin
            /\ \E r \in source :
                  clean[i].record_fingerprint = create_record_hash(r)

\* C25 (as claimed): the rows of one extraction all carry the same batch
\* identifier, and the batches of two distinct invocations never carry the
\* same one (here the clock does not advance: the two orchestrators are
\* constructed within the same second).
C25_BatchIdPerRun ==
    /\ \A p \in Procs : \A i, j \in DOMAIN raw_data[p].rows :
          raw_data[p].rows[i].batch_id = raw_data[p].rows[j].batch_id
    /\ \A i \in DOMAIN raw_data[1].rows : \A j \in DOMAIN raw_data[2].rows :
          raw_data[1].rows[i].batch_id # raw_data[2].rows[j].batch_id

\* C26 (as claimed): transform() leaves the frame it is handed as it was
\* (same columns, same rows) and writes no table; handed an empty frame it
\* returns that frame and does not raise.
C26_TransformPure ==
    [][pc[1] = "transform" =>
          /\ raw_data' = raw_data
          /\ <<clean, etl_runs, staging>>' = <<clean, etl_runs, staging>>
          /\ raw_data[1].rows = << >> =>
                (pc'[1] = "load" /\ clean_data'[1] = raw_data[1])]_vars

\* C27: the clean table is append-only: in every step of the pipeline the
\* rows it held are still there, in place and with every field as it was;
\* a step can only add rows after them.
C27_CleanAppendOnly ==
    [][/\ Len(clean') >= Len(clean)
       /\ SubSeq(clean', 1, Len(clean)) = clean]_vars

\* an invocation has appended rows to a clean table that already held some
C27_Witness ==
    \E p \in Scheduled :
        /\ hist[p].cleanBefore >= 1
        /\ Len(clean) > hist[p].cleanBefore
        /\ hist[p].loadError = Some("")

\* C28: a load that raises leaves the clean table as it was: the step in
\* which load_to_clean raises writes no clean row, and when the run then
\* ends, the clean table has gained as many rows as the result reports,
\* none; the result says error, and the etl_runs row written in that step,
\* if any, is FAILED with 0 records.
C28_FailedLoadAtomic ==
    [][\A p \in Scheduled :
          /\ (pc[p] = "load" /\ pc'[p] = "meta_failed") => clean' = clean
          /\ (pc[p] = "meta_failed" /\ pc'[p] = "done") =>
                /\ clean' = clean
                /\ result'[p].status = "error"
                /\ result'[p].records_processed = 0
                /\ Len(clean') - hist[p].cleanBefore
                      = result'[p].records_processed
                /\ etl_runs' # etl_runs =>
                      /\ Len(etl_runs') = Len(etl_runs) + 1
                      /\ etl_runs'[Len(etl_runs')].status = "FAILED"
                      /\ etl_runs'[Len(etl_runs')].records_processed
                            = Len(clean') - hist[p].cleanBefore]_vars

\* a run whose load raised on a non-empty batch, against a clean table that
\* already held rows, has ended and its FAILED row is recorded
C28_Witness ==
    \E p \in Scheduled :
        /\ pc[p] = "done"
        /\ LoadRaised(hist[p])
        /\ hist[p].metaWritten
        /\ hist[p].cleanBefore >= 1
        /\ Len(clean) = hist[p].cleanBefore
        /\ etl_runs[Len(etl_runs)].status = "FAILED"
        /\ result[p].status = "error"

\* the source rows the query of invocation e selected
PickedBy(e) ==
    {r \in e.visible :
        IF e.wm # None THEN r.date > e.wm[1] ELSE r.date >= e.lower[1]}

\* the query of invocation e returned rows, none of them valid, and the
\* transformer returned (the loader was called)
AllDropped(e) ==
    /\ e.extracted # None
    /\ PickedBy(e) # {}
    /\ \A r \in PickedBy(e) : ~IsValidSource(r)
    /\ "load" \in e.invoked

\* C29: when the query returned rows and the transformer dropped them all,
\* load() returns 0 having written neither the clean table nor etl_runs,
\* run() returns success with 0 records, the watermark is what it was, and
\* the next run's query selects those rows again.
C29_AllInvalidBatch ==
    \A p \in Scheduled :
        /\ AllDropped(hist[p]) =>
              /\ pc[p] \in {"mark", "done"}
              /\ hist[p].loadError = None
              /\ ~hist[p].metaWritten
              /\ Len(clean) = hist[p].cleanBefore
              /\ Len(etl_runs) = hist[p].etlBefore
              /\ Watermarks(etl_runs)
                    = Watermarks(SubSeq(etl_runs, 1, hist[p].etlBefore))
              /\ pc[p] = "mark" => records_loaded[p] = 0
              /\ pc[p] = "done" =>
                    /\ hist[p].result.status = "success"
                    /\ hist[p].result.records_processed = 0
                    /\ result[p] = hist[p].result
        /\ (AllDropped(prev) /\ hist[p].extracted # None) =>
              /\ PickedBy(prev) \subseteq PickedBy(hist[p])
              /\ hist[p].extracted[1] >= prev.extracted[1]

\* an incremental run extracted rows later than the watermark, all of them
\* invalid, and returned; the next run has extracted them again
C29_Witness ==
    \E p \in Scheduled :
        /\ AllDropped(prev)
        /\ prev.wm # None
        /\ prev.result.status = "success"
        /\ hist[p].lookup = "ok"
        /\ hist[p].wm = prev.wm
        /\ hist[p].extracted # None
        /\ PickedBy(hist[p]) = PickedBy(prev)
        /\ pc[p] = "done"

\* C30 (as claimed): every column of a batch the Transformer hands to the
\* Loader is a column of the clean table init_database creates, and a load
\* into that table is never rejected for an unknown column.
C30_SchemaCompatible ==
    \A p \in Scheduled :
        /\ (pc[p] = "load" /\ clean_data[p].rows # << >>) =>
              clean_data[p].columns \subseteq InitCleanColumns
        /\ cleanColumns = InitCleanColumns =>
              hist[p].loadError
                 # Some("column of relation clean_quality_data does not exist")

====
